---- MODULE Spec2Model ----
(***************************************************************************)
(* State-machine model of the external-idp-app gateway:                    *)
(*   - the session-based OAuth2/OIDC login flow (OAuthController and       *)
(*     OIDCService over an express-session store),                         *)
(*   - the bearer-token verifier (AuthMiddleware) and the middleware chain *)
(*     of the REST routes with their controllers,                          *)
(*   - signup and signin against the provider's user pool                  *)
(*     (CognitoService),                                                   *)
(*   - the signup validator and the bulk-provisioning utility.             *)
(* Every handler that runs without awaiting anything is one action; a      *)
(* handler that awaits the provider is one action per resumption.          *)
(***************************************************************************)
EXTENDS Integers, Sequences, FiniteSets, TLC

(***************************************************************************)
(* Bounds of the model.                                                    *)
(***************************************************************************)
NumSessions == 1
NumCallbacks == 2
MaxNonce == 2
MaxState == 2
MaxTok == 2
MaxDestroyCb == 1
NumKids == 2
NumMats == 2
MaxTime == 2
NumSubs == 1
NumApi == 1
NumUsers == 1
NumPasswords == 2
NumGw == 2
MaxNameLen == 21
MaxRun == 3
MaxEnd == 3

Sessions == 1..NumSessions
CbIds == 1..NumCallbacks
Nonces == 1..MaxNonce
States == 1..MaxState
Toks == 1..MaxTok

VARIABLES
  client,     \* OIDCService.client: "pending" (null, discovery in flight),
              \* "ready" (set), "failed" (null, discovery rejected)
  store,      \* the session store: session -> stored req.session.oauth
  cb,         \* the /oauth/callback requests: slot -> request record
  resp,       \* session -> the last response a handler sent on it
  destroyCb,  \* session -> deferred store.destroy callbacks not yet run
  pems,       \* AuthMiddleware.pems: kid -> key material (0: no entry)
  load,       \* the initializePems() promise: "pending", "done", "failed"
  provKeys,   \* the keys the provider publishes: kid -> material (0: none)
  now,        \* the clock jwt.verify reads
  api,        \* the REST requests: slot -> request record
  users,      \* the provider's user pool: username -> user record
  gw,         \* the /auth/signup and /auth/signin requests: slot -> record
  form,       \* the last signup body the signup validator ran on, with the
              \* fields it reported
  bulk        \* the run of scripts/bulk-create-users.ts

oauthVars == <<client, store, cb, resp, destroyCb>>
verVars == <<pems, load, provKeys, now, api>>
gwVars == <<users, gw>>
toolVars == <<form, bulk>>
vars ==
  <<client, store, cb, resp, destroyCb, pems, load, provKeys, now, api,
    users, gw, form, bulk>>

(***************************************************************************)
(* OAuthSession (oauth.controller.ts): 0 and <<>> stand for an absent      *)
(* field; NoOAuth is a session whose oauth property was never set (or a    *)
(* session the store does not hold).                                       *)
(***************************************************************************)
Absent == <<>>

NoOAuth ==
  [nonce |-> 0, state |-> 0, userInfo |-> Absent,
   accessToken |-> Absent, idToken |-> Absent, refreshToken |-> Absent]

\* The token set the provider's token endpoint returns for exchange t.
TokenSet(t) ==
  [access_token |-> <<"access", t>>, id_token |-> <<"id", t>>,
   refresh_token |-> <<"refresh", t>>]

NoTokenSet ==
  [access_token |-> Absent, id_token |-> Absent, refresh_token |-> Absent]

\* What the provider's userinfo endpoint returns for an access token.
UserInfoOf(accessToken) == <<"user", accessToken[2]>>

\* !!req.session.oauth?.userInfo
IsAuthenticated(oauth) == oauth.userInfo # Absent

\* What a rendered view is given of the session; null and undefined are
\* Absent.
NoView == [userInfo |-> Absent, accessToken |-> Absent, idToken |-> Absent]

\* A response: its kind, one observation made when it was sent, its error,
\* and what its view shows.
NoResp == [kind |-> "none", flag |-> FALSE, err |-> "none", shown |-> NoView]

IdleCb ==
  [pc |-> "idle", sid |-> 0, sess |-> NoOAuth, pState |-> 0,
   exchanged |-> FALSE, idNonce |-> 0, tokenSet |-> NoTokenSet,
   tokenCalls |-> 0, result |-> "none"]

(***************************************************************************)
(* The bearer-token verifier (auth.middleware.ts).                         *)
(* A JWT is what jwt.decode and jwt.verify read of it: whether it decodes, *)
(* the kid of its header, the key material that signed it, its exp and its *)
(* sub.  The kid is absent (kid 0, inh "none"), a key id (kid in Kids), or *)
(* the name of a property that the object literal pems inherits from       *)
(* Object.prototype (inh).  An Authorization header is the sequence of its *)
(* lexemes: a space, or a word without spaces (a JWT is a word).           *)
(***************************************************************************)
Kids == 1..NumKids
Mats == 1..NumMats
ApiIds == 1..NumApi

\* Inherited properties of pems = {}: a function that returns without
\* calling its second argument, a function that throws when called without
\* a receiver, and an object.
InheritedNames == {"constructor", "hasOwnProperty", "__proto__"}

Garbage ==
  [decodable |-> FALSE, kid |-> 0, inh |-> "none", sig |-> 0, exp |-> 0,
   sub |-> 0]

KeyedJwts == [decodable : {TRUE}, kid : 0..NumKids, inh : {"none"}, sig : Mats,
              exp : 1..MaxTime, sub : 1..NumSubs]

InheritedKidJwts == [decodable : {TRUE}, kid : {0}, inh : InheritedNames,
                     sig : {1}, exp : {MaxTime}, sub : {1}]

Jwts == KeyedJwts \cup InheritedKidJwts

GoodJwt ==
  [decodable |-> TRUE, kid |-> 1, inh |-> "none", sig |-> 1, exp |-> MaxTime,
   sub |-> 1]

SP == [w |-> " ", tok |-> Garbage]
EmptyStr == [w |-> "", tok |-> Garbage]
NullStr == [w |-> "null", tok |-> Garbage]
Word(x) == [w |-> x, tok |-> Garbage]
JwtWord(t) == [w |-> "jwt", tok |-> t]

NoHeader == [present |-> FALSE, lex |-> <<>>]
HeaderOf(lex) == [present |-> TRUE, lex |-> lex]

\* The Authorization headers the requests carry.
Headers ==
  {NoHeader, HeaderOf(<<>>)}
  \cup {HeaderOf(<<Word("Bearer"), SP, JwtWord(t)>>) : t \in Jwts}
  \cup {HeaderOf(<<Word("Bearer"), SP, Word("garbage")>>),
        HeaderOf(<<Word("Bearer")>>),
        HeaderOf(<<Word("Bearer"), SP>>),
        HeaderOf(<<Word("Bearer"), SP, SP, JwtWord(GoodJwt)>>),
        HeaderOf(<<Word("Basic"), SP, JwtWord(GoodJwt)>>),
        HeaderOf(<<Word("bearer"), SP, JwtWord(GoodJwt)>>),
        HeaderOf(<<Word("Bearer"), SP, JwtWord(GoodJwt), SP, Word("x")>>),
        HeaderOf(<<JwtWord(GoodJwt)>>)}

\* authHeader.split(' '): the parts between the spaces, empty parts included
RECURSIVE SplitFrom(_, _, _, _)
SplitFrom(lex, i, cur, acc) ==
  IF i > Len(lex) THEN Append(acc, cur)
  ELSE IF lex[i] = SP THEN SplitFrom(lex, i + 1, EmptyStr, Append(acc, cur))
  ELSE SplitFrom(lex, i + 1, lex[i], acc)

Split(lex) == SplitFrom(lex, 1, EmptyStr, <<>>)

\* variant of extractToken that does not look at the scheme
ExtractTokenAnyScheme(header) ==
  IF ~header.present \/ header.lex = <<>> THEN NullStr
  ELSE LET parts == Split(header.lex)
       IN  IF Len(parts) # 2 THEN NullStr ELSE parts[2]

\* AuthMiddleware.extractToken
ExtractToken(header) ==
  IF ~header.present \/ header.lex = <<>> THEN NullStr
  ELSE LET parts == Split(header.lex)
       IN  IF Len(parts) # 2 \/ parts[1] # Word("Bearer") THEN NullStr
           ELSE parts[2]

\* if (!token)
NoTokenProvided(token) == token = NullStr \/ token = EmptyStr

\* jwt.decode(token, {complete: true}) returns an object
Decodes(token) == token.w = "jwt" /\ token.tok.decodable

\* this.pems[kid]: a stored pem, or what pems inherits under that name
PemLookup(tok, keys) ==
  IF tok.inh # "none" THEN [kind |-> tok.inh, mat |-> 0]
  ELSE [kind |-> "pem", mat |-> keys[tok.kid]]

\* !kid || !this.pems[kid]
UnknownKid(tok, keys) ==
  \/ tok.kid = 0 /\ tok.inh = "none"
  \/ tok.inh = "none" /\ keys[tok.kid] = 0

\* variant of jwt.verify with ignoreExpiration
JwtVerifyIgnoringExpiry(tok, key, t) ==
  IF key.kind = "constructor" THEN "silent"
  ELSE IF key.kind = "hasOwnProperty" THEN "throws"
  ELSE IF key.kind = "__proto__" THEN "err"
  ELSE IF tok.sig = key.mat THEN "ok"
  ELSE "err"

\* jwt.verify(token, key, callback).  A key that is a function is called as
\* the key getter, getSecret(header, cb): Object(header, cb) returns without
\* calling cb ("silent": the callback never runs), hasOwnProperty(header, cb)
\* throws out of jwt.verify ("throws").  Otherwise the callback runs before
\* jwt.verify returns: with an error when the key is no key material, the
\* signature does not validate under it or the token is expired at time t
\* ("err"), else with the decoded payload ("ok").
JwtVerify(tok, key, t) ==
  IF key.kind = "constructor" THEN "silent"
  ELSE IF key.kind = "hasOwnProperty" THEN "throws"
  ELSE IF key.kind = "__proto__" THEN "err"
  ELSE IF tok.sig = key.mat /\ t < tok.exp THEN "ok"
  ELSE "err"

AuthReject(msg, calls) ==
  [status |-> 401, error |-> msg, user |-> 0, accessToken |-> FALSE,
   next |-> 0, verifyCalls |-> calls]

\* catch (error): res.status(500).json({ error: 'Authentication failed' })
AuthError ==
  [status |-> 500, error |-> "Authentication failed", user |-> 0,
   accessToken |-> FALSE, next |-> 0, verifyCalls |-> 1]

\* the verify callback never runs: no response is sent, next is not called
AuthSilent ==
  [status |-> 0, error |-> "none", user |-> 0, accessToken |-> FALSE,
   next |-> 0, verifyCalls |-> 1]

AuthAccept(tok) ==
  [status |-> 0, error |-> "none", user |-> tok.sub, accessToken |-> TRUE,
   next |-> 1, verifyCalls |-> 1]

AuthPass(calls) ==
  [status |-> 0, error |-> "none", user |-> 0, accessToken |-> FALSE,
   next |-> 1, verifyCalls |-> calls]

\* AuthMiddleware.authenticate
AuthDecision(header, keys, t) ==
  LET token == ExtractToken(header)
  IN  IF NoTokenProvided(token) THEN AuthReject("No token provided", 0)
      ELSE IF ~Decodes(token) THEN AuthReject("Invalid token", 0)
      ELSE IF UnknownKid(token.tok, keys)
           THEN AuthReject("Invalid token", 0)
      ELSE LET v == JwtVerify(token.tok, PemLookup(token.tok, keys), t)
           IN  IF v = "ok" THEN AuthAccept(token.tok)
               ELSE IF v = "err"
                    THEN AuthReject("Token verification failed", 1)
               ELSE IF v = "throws" THEN AuthError
               ELSE AuthSilent

\* AuthMiddleware.optionalAuthenticate
OptionalDecision(header, keys, t) ==
  LET token == ExtractToken(header)
  IN  IF NoTokenProvided(token) THEN AuthPass(0)
      ELSE IF ~Decodes(token) THEN AuthPass(0)
      ELSE IF UnknownKid(token.tok, keys) THEN AuthPass(0)
      ELSE LET v == JwtVerify(token.tok, PemLookup(token.tok, keys), t)
           IN  IF v = "ok" THEN AuthAccept(token.tok)
               ELSE IF v \in {"err", "throws"} THEN AuthPass(1)
               ELSE AuthSilent

(***************************************************************************)
(* The bearer-protected routes (user.routes.ts, auth.routes.ts) and the    *)
(* handlers each mounts, in order.  "optional" stands for a route mounted  *)
(* behind optionalAuthenticate; what follows the verifier on it is not     *)
(* modelled.                                                               *)
(***************************************************************************)
ValidatedRoutes ==
  {"changePassword", "updateProfile", "adminCreateUser", "adminDeleteUser"}

UnvalidatedRoutes == {"signOut", "getProfile", "deleteAccount", "listUsers"}

ProtectedRoutes == ValidatedRoutes \cup UnvalidatedRoutes

\* the routes of auth.routes.ts that mount no verifier
PublicRoutes ==
  {"signUp", "signIn", "verifyEmail", "resendVerificationCode",
   "forgotPassword", "resetPassword", "refreshToken"}

Chain(route) ==
  IF route \in ValidatedRoutes THEN <<"authenticate", "validate", "controller">>
  ELSE IF route \in UnvalidatedRoutes THEN <<"authenticate", "controller">>
  ELSE IF route \in PublicRoutes THEN <<"validate", "controller">>
  ELSE <<"optionalAuthenticate">>

IdleApi ==
  [pc |-> "idle", route |-> "none", header |-> NoHeader, idx |-> 0,
   status |-> 0, error |-> "none", user |-> 0, accessToken |-> FALSE,
   nextCalls |-> 0, verifyCalls |-> 0, authAt |-> 0, ran |-> {},
   providerCalls |-> 0, forwarded |-> FALSE, sent |-> 0, nextErrors |-> 0]

InitVerifier ==
  /\ pems = [k \in Kids |-> 0]
  /\ load = "pending"
  /\ provKeys = [k \in Kids |-> IF k = 1 THEN 1 ELSE 0]
  /\ now = 0
  /\ api = [q \in ApiIds |-> IdleApi]

(***************************************************************************)
(* The provider's user pool, as AdminCreateUser, AdminSetUserPassword,     *)
(* InitiateAuth (USER_PASSWORD_AUTH), GetUser and AdminDeleteUser read and *)
(* write it, and the signup and signin requests of the gateway.            *)
(***************************************************************************)
Usernames == 1..NumUsers
Passwords == 1..NumPasswords
GwIds == 1..NumGw

\* the temporary password AdminCreateUser generates (no submitted password)
TempPassword == 0

NoUser == [status |-> "absent", password |-> TempPassword]

\* the AuthenticationResult InitiateAuth returns for user u
AuthenticationResult(u) ==
  [AccessToken |-> <<"access", u>>, IdToken |-> <<"id", u>>,
   RefreshToken |-> <<"refresh", u>>]

NoAuthenticationResult ==
  [AccessToken |-> Absent, IdToken |-> Absent, RefreshToken |-> Absent]

NoTokens ==
  [accessToken |-> Absent, idToken |-> Absent, refreshToken |-> Absent]

IdleGw ==
  [pc |-> "idle", op |-> "none", username |-> 0, password |-> 0,
   auth |-> NoAuthenticationResult, calls |-> <<>>,
   status |-> 0, error |-> "none", userId |-> 0, userConfirmed |-> FALSE,
   tokens |-> NoTokens]

InitGateway ==
  /\ users = [u \in Usernames |-> NoUser]
  /\ gw = [g \in GwIds |-> IdleGw]

(***************************************************************************)
(* The signup validator (user.validators.ts).  A string is what the        *)
(* validators read of it: the class of its first character and the number  *)
(* of its characters of each class.  "special" is one of @$!%*?& and       *)
(* "other" any other character that is no ASCII letter or digit (a '#', a  *)
(* '-', a letter with an accent); a missing field reads as the empty       *)
(* string.                                                                 *)
(***************************************************************************)
CharClasses == {"lower", "upper", "digit", "special", "other"}

EmptyString == [first |-> "none", n |-> [c \in CharClasses |-> 0]]

\* the character counts with at most k characters of a class, at most m of
\* them lowercase letters
CountsUpTo(k, m) ==
  {[c \in CharClasses |-> IF c = "lower" THEN l ELSE f[c]] :
     l \in 0..m, f \in [CharClasses \ {"lower"} -> 0..k]}

\* the strings with these character counts
StringsUpTo(k, m) ==
  {EmptyString}
  \cup {s \in [first : CharClasses, n : CountsUpTo(k, m)] : s.n[s.first] > 0}

\* str.length
Length(s) ==
  s.n["lower"] + s.n["upper"] + s.n["digit"] + s.n["special"] + s.n["other"]

\* variant of isLength whose bounds are exclusive
IsLengthExclusive(s, min, max) == Length(s) > min /\ Length(s) < max

\* .isLength({ min, max })
IsLength(s, min, max) == Length(s) >= min /\ Length(s) <= max

\* .isLength({ min })
IsMinLength(s, min) == Length(s) >= min

\* .isAlphanumeric(): /^[0-9A-Z]+$/i
IsAlphanumeric(s) ==
  Length(s) > 0 /\ s.n["special"] = 0 /\ s.n["other"] = 0

\* .matches(/^(?=.*[a-z])(?=.*[A-Z])(?=.*\d)(?=.*[@$!%*?&])[A-Za-z\d@$!%*?&]/):
\* the four lookaheads, then one character of the listed ones at the start
MatchesPasswordPattern(s) ==
  /\ s.n["lower"] > 0
  /\ s.n["upper"] > 0
  /\ s.n["digit"] > 0
  /\ s.n["special"] > 0
  /\ s.first \in {"lower", "upper", "digit", "special"}

\* .isEmail() on an address that is, or is not, one
IsEmail(email) == email = "address"

\* signUpValidator: the fields whose chain reports an error (the optional
\* fields are absent)
SignUpErrors(body) ==
  (IF IsEmail(body.email) THEN {} ELSE {"email"})
  \cup (IF IsLength(body.username, 3, 20) /\ IsAlphanumeric(body.username)
        THEN {} ELSE {"username"})
  \cup (IF /\ IsMinLength(body.password, 8)
           /\ MatchesPasswordPattern(body.password)
        THEN {} ELSE {"password"})

\* strings of lowercase letters only
Lowercase(len) ==
  [first |-> IF len = 0 THEN "none" ELSE "lower",
   n |-> [c \in CharClasses |-> IF c = "lower" THEN len ELSE 0]]

\* a password like 'StrongPassword@123' and one like 'StrongPassword@abc'
StrongPassword ==
  [first |-> "upper",
   n |-> [c \in CharClasses |->
            IF c = "other" THEN 0 ELSE IF c = "special" THEN 1 ELSE MaxRun]]

NoDigitPassword ==
  [StrongPassword EXCEPT !.n["digit"] = 0, !.n["lower"] = MaxRun + 1]

UsernameStrings == StringsUpTo(1, MaxNameLen)
PasswordStrings == StringsUpTo(MaxRun, MaxRun + 1)

\* The signup bodies the requests carry.
SignUpBodies ==
  [email : {"address", "text"}, username : UsernameStrings,
   password : {StrongPassword, NoDigitPassword}]
  \cup [email : {"address"},
        username : {Lowercase(3), Lowercase(20), Lowercase(21)},
        password : PasswordStrings]

NoForm ==
  [ran |-> FALSE,
   body |-> [email |-> "text", username |-> EmptyString,
             password |-> EmptyString],
   errors |-> {}]

InitValidator == form = NoForm

(***************************************************************************)
(* The bulk-provisioning utility (scripts/bulk-create-users.ts), a client   *)
(* of POST /auth/signup.  What createUser reads of an answer: whether one   *)
(* came, its status, and whether its message includes                      *)
(* 'UsernameExistsException'.                                              *)
(***************************************************************************)
\* createUser(userData, retries = 3); bulkCreateUsers passes no second
\* argument
DefaultRetries == 3

\* the statuses of the error responses
ErrorStatuses == {400, 409, 500}

Created == [kind |-> "created", status |-> 201, named |-> FALSE]
NoResponse == [kind |-> "noResponse", status |-> 0, named |-> FALSE]
NoOutcome == [kind |-> "none", status |-> 0, named |-> FALSE]

\* what axios.post settles with: a 2xx response, an error response, or an
\* error without a response
Outcomes ==
  {Created, NoResponse}
  \cup [kind : {"response"}, status : ErrorStatuses, named : BOOLEAN]

NoCounts == [success |-> 0, failed |-> 0, skipped |-> 0]

IdleBulk ==
  [pc |-> "idle", startNumber |-> 0, endNumber |-> 0, i |-> 0, attempt |-> 0,
   requests |-> 0, last |-> NoOutcome, log |-> <<>>,
   successCount |-> 0, failedCount |-> 0, skippedCount |-> 0,
   returned |-> NoCounts]

InitBulk == bulk = IdleBulk

Init ==
  /\ client = "pending"
  /\ store = [s \in Sessions |-> NoOAuth]
  /\ cb = [r \in CbIds |-> IdleCb]
  /\ resp = [s \in Sessions |-> NoResp]
  /\ destroyCb = [s \in Sessions |-> 0]
  /\ InitVerifier
  /\ InitGateway
  /\ InitValidator
  /\ InitBulk

(***************************************************************************)
(* OIDCService.initialize, started once by the oauth router.               *)
(***************************************************************************)
DiscoveryOk ==
  /\ client = "pending"
  /\ client' = "ready"
  /\ UNCHANGED <<store, cb, resp, destroyCb, verVars, gwVars, toolVars>>

DiscoveryFail ==
  /\ client = "pending"
  /\ client' = "failed"
  /\ UNCHANGED <<store, cb, resp, destroyCb, verVars, gwVars, toolVars>>

\* variant of the service without its !this.client guards
ClientAssumed == TRUE

\* OIDCService.getClient and the guards of getAuthorizationUrl, callback
\* and getUserInfo
ClientInitialized == client = "ready"

(***************************************************************************)
(* OAuthController.login: the session is assigned before the URL is built; *)
(* express-session saves the modified session when the response ends.      *)
(***************************************************************************)
\* variant of login that stores nothing
LoginStoresNothing(n, st) == NoOAuth

\* req.session.oauth = { nonce, state }
LoginSession(n, st) ==
  [NoOAuth EXCEPT !.nonce = n, !.state = st]

Login(s, n, st) ==
  /\ store' = [store EXCEPT ![s] = LoginSession(n, st)]
  /\ resp' = [resp EXCEPT ![s] =
       IF ClientInitialized
       THEN [NoResp EXCEPT !.kind = "authRedirect", !.flag = TRUE]
       ELSE [NoResp EXCEPT !.kind = "loginError", !.err = "NotInitialized"]]
  /\ UNCHANGED <<client, cb, destroyCb, verVars, gwVars, toolVars>>

(***************************************************************************)
(* The checks of client.callback(redirect_uri, params, {nonce, state}).    *)
(***************************************************************************)
\* params.state against checks.state, before the token endpoint is called
StateMatches(pState, state) == pState # 0 /\ pState = state

\* variant of client.callback called without checks.nonce
NonceUnchecked(idNonce, nonce) == TRUE

\* the ID token's nonce claim against checks.nonce, after the exchange
NonceMatches(idNonce, nonce) == idNonce = nonce

\* variant of callback without the session check
SessionStateUnchecked(oauth) == FALSE

\* if (!req.session.oauth?.nonce || !req.session.oauth?.state)
SessionStateMissing(oauth) == oauth.nonce = 0 \/ oauth.state = 0

\* variant of the stored session that holds the userInfo before the tokens
SessionUserInfoFirst(oauth, userInfo, tokenSet) ==
  [oauth EXCEPT !.userInfo = userInfo]

\* variant of the stored session that drops the refresh token
SessionWithoutRefresh(oauth, userInfo, tokenSet) ==
  [oauth EXCEPT !.userInfo = userInfo,
                !.accessToken = tokenSet.access_token,
                !.idToken = tokenSet.id_token]

\* the session a finished callback stores:
\* {...req.session.oauth, userInfo, tokens}
AuthenticatedSession(oauth, userInfo, tokenSet) ==
  [oauth EXCEPT !.userInfo = userInfo,
                !.accessToken = tokenSet.access_token,
                !.idToken = tokenSet.id_token,
                !.refreshToken = tokenSet.refresh_token]

CbError(r, e) ==
  [NoResp EXCEPT !.kind = "authError", !.err = e]

\* A request ends with the error page: the session is not modified, so
\* express-session does not save it.
CbFail(r, rec, e) ==
  /\ cb' = [cb EXCEPT ![r] = [rec EXCEPT !.pc = "done", !.result = e]]
  /\ resp' = [resp EXCEPT ![rec.sid] = CbError(r, e)]
  /\ UNCHANGED <<client, store, destroyCb, verVars, gwVars, toolVars>>

(***************************************************************************)
(* OAuthController.callback up to its first await: the session is loaded,  *)
(* getClient, the session check, and the synchronous prefix of             *)
(* client.callback (the state check) run; then the token request is sent.  *)
(***************************************************************************)
CallbackStart(r, s, pState) ==
  /\ cb[r].pc = "idle"
  /\ LET rec == [IdleCb EXCEPT !.sid = s, !.sess = store[s], !.pState = pState]
     IN  IF ~ClientInitialized THEN CbFail(r, rec, "NotInitialized")
         ELSE IF SessionStateMissing(rec.sess)
              THEN CbFail(r, rec, "SessionStateMissing")
         ELSE IF ~StateMatches(pState, rec.sess.state)
              THEN CbFail(r, rec, "CallbackValidationFailed")
         ELSE /\ cb' = [cb EXCEPT ![r] =
                   [rec EXCEPT !.pc = "token", !.tokenCalls = 1]]
              /\ UNCHANGED <<client, store, resp, destroyCb, verVars, gwVars,
                             toolVars>>

\* The token endpoint answers: an error, or a token set whose ID token
\* carries nonce idNonce (0: no nonce claim).
CallbackToken(r, ok, idNonce, t) ==
  /\ cb[r].pc = "token"
  /\ IF ~ok THEN CbFail(r, cb[r], "TokenExchangeFailed")
     ELSE IF ~NonceMatches(idNonce, cb[r].sess.nonce)
          THEN CbFail(r, [cb[r] EXCEPT !.exchanged = TRUE,
                                       !.idNonce = idNonce],
                      "CallbackValidationFailed")
     ELSE /\ cb' = [cb EXCEPT ![r] =
               [cb[r] EXCEPT !.pc = "userinfo", !.exchanged = TRUE,
                             !.idNonce = idNonce,
                             !.tokenSet = TokenSet(t)]]
          /\ UNCHANGED <<client, store, resp, destroyCb, verVars, gwVars,
                         toolVars>>

\* The userinfo endpoint answers; on success the session is assigned and
\* express-session saves it when the redirect ends the response.
CallbackUserInfo(r, ok) ==
  /\ cb[r].pc = "userinfo"
  /\ IF ~ok THEN CbFail(r, cb[r], "UserInfoFailed")
     ELSE LET rec == cb[r]
              new == AuthenticatedSession(rec.sess,
                       UserInfoOf(rec.tokenSet.access_token), rec.tokenSet)
          IN  /\ cb' = [cb EXCEPT ![r] =
                   [rec EXCEPT !.pc = "done", !.sess = new, !.result = "ok"]]
              /\ store' = [store EXCEPT ![rec.sid] = new]
              /\ resp' = [resp EXCEPT ![rec.sid] =
                   [NoResp EXCEPT !.kind = "appRedirect", !.flag = TRUE]]
              /\ UNCHANGED <<client, destroyCb, verVars, gwVars, toolVars>>

(***************************************************************************)
(* OAuthController.logout over the configured store: app.ts passes no      *)
(* store to session(), so the store is express-session's MemoryStore,      *)
(* whose destroy deletes the entry at the call and defers the callback     *)
(* (with no error).  The redirect is sent without waiting for it.          *)
(***************************************************************************)
\* variant of a store whose destroy deletes the entry after the call returns
StoreDestroyDeferred(st, s) == st

\* variant of a logout that unsets the tokens and keeps the rest
StoreDestroyTokensOnly(st, s) ==
  [st EXCEPT ![s].accessToken = Absent, ![s].idToken = Absent,
             ![s].refreshToken = Absent]

StoreDestroy(st, s) == [st EXCEPT ![s] = NoOAuth]

Logout(s) ==
  /\ destroyCb[s] < MaxDestroyCb
  /\ store' = StoreDestroy(store, s)
  /\ destroyCb' = [destroyCb EXCEPT ![s] = @ + 1]
  /\ resp' = [resp EXCEPT ![s] =
       [kind |-> "logoutRedirect",
        flag |-> StoreDestroy(store, s)[s] = NoOAuth,
        err |-> IF IsAuthenticated(store[s]) THEN "wasAuthenticated"
                ELSE "none",
        shown |-> NoView]]
  /\ UNCHANGED <<client, cb, verVars, gwVars, toolVars>>

\* The deferred callback (err) => { if (err) logger.error(...) } runs.
DestroyCallback(s) ==
  /\ destroyCb[s] > 0
  /\ destroyCb' = [destroyCb EXCEPT ![s] = @ - 1]
  /\ UNCHANGED <<client, store, cb, resp, verVars, gwVars, toolVars>>

(***************************************************************************)
(* OAuthController.home behind checkAuth, and OAuthController.profile.     *)
(***************************************************************************)
\* variant of the views without their gate
CurrentUserUngated(oauth) == TRUE

\* !!req.session.oauth?.userInfo (home, checkAuth);
\* !req.session.oauth?.userInfo (profile)
CurrentUser(oauth) == IsAuthenticated(oauth)

Home(s) ==
  /\ resp' = [resp EXCEPT ![s] =
       [kind |-> "home", flag |-> CurrentUser(store[s]), err |-> "none",
        shown |-> [NoView EXCEPT !.userInfo = store[s].userInfo]]]
  /\ UNCHANGED <<client, store, cb, destroyCb, verVars, gwVars, toolVars>>

Profile(s) ==
  /\ resp' = [resp EXCEPT ![s] =
       IF ~CurrentUser(store[s])
       THEN [NoResp EXCEPT !.kind = "loginRedirect"]
       ELSE [kind |-> "profile", flag |-> TRUE, err |-> "none",
             shown |-> [userInfo |-> store[s].userInfo,
                        accessToken |-> store[s].accessToken,
                        idToken |-> store[s].idToken]]]
  /\ UNCHANGED <<client, store, cb, destroyCb, verVars, gwVars, toolVars>>

(***************************************************************************)
(* AuthMiddleware.initializePems, started by the constructor and not       *)
(* awaited: the JWKS response arrives and its entries are converted and    *)
(* stored one by one; a failed conversion throws out of the loop.          *)
(***************************************************************************)
\* The JWKS document of the published keys; the entries in bad do not convert.
RECURSIVE JwksFrom(_, _, _)
JwksFrom(published, bad, k) ==
  IF k > NumKids THEN <<>>
  ELSE (IF published[k] = 0 THEN <<>>
        ELSE <<[kid |-> k, mat |-> published[k], ok |-> k \notin bad]>>)
       \o JwksFrom(published, bad, k + 1)

\* jwks.forEach((jwk) => { this.pems[jwk.kid] = jwkToPem(...) })
RECURSIVE ApplyJwks(_, _, _)
ApplyJwks(keys, doc, i) ==
  IF i > Len(doc) THEN [pems |-> keys, threw |-> FALSE]
  ELSE IF ~doc[i].ok THEN [pems |-> keys, threw |-> TRUE]
  ELSE ApplyJwks([keys EXCEPT ![doc[i].kid] = doc[i].mat], doc, i + 1)

LoadKeysResponse(bad) ==
  /\ load = "pending"
  /\ LET r == ApplyJwks(pems, JwksFrom(provKeys, bad, 1), 1)
     IN  /\ pems' = r.pems
         /\ load' = IF r.threw THEN "failed" ELSE "done"
  /\ UNCHANGED <<provKeys, now, api, oauthVars, gwVars, toolVars>>

\* axios.get rejects: the catch logs and nothing else runs.
LoadKeysError ==
  /\ load = "pending"
  /\ load' = "failed"
  /\ UNCHANGED <<pems, provKeys, now, api, oauthVars, gwVars, toolVars>>

\* The provider publishes, replaces or retires a signing key.
ProviderRotate(k, m) ==
  /\ provKeys[k] # m
  /\ provKeys' = [provKeys EXCEPT ![k] = m]
  /\ UNCHANGED <<pems, load, now, api, oauthVars, gwVars, toolVars>>

Tick ==
  /\ now < MaxTime
  /\ now' = now + 1
  /\ UNCHANGED <<pems, load, provKeys, api, oauthVars, gwVars, toolVars>>

(***************************************************************************)
(* A request on a bearer-protected route reaches authenticate, the first   *)
(* handler of its chain; authenticate awaits nothing.  A request neither   *)
(* answered nor passed on stays "hung".                                    *)
(***************************************************************************)
AfterAuth(rec, d, t) ==
  [rec EXCEPT !.pc = IF d.next = 0
                     THEN (IF d.status = 0 THEN "hung" ELSE "done")
                     ELSE IF Len(Chain(rec.route)) >= 2 THEN "chain"
                     ELSE "passed",
              !.idx = 2, !.status = d.status, !.error = d.error,
              !.user = d.user, !.accessToken = d.accessToken,
              !.nextCalls = d.next, !.verifyCalls = d.verifyCalls,
              !.authAt = t]

Authenticate(q, route, header) ==
  /\ api[q].pc = "idle"
  /\ LET rec == [IdleApi EXCEPT !.route = route, !.header = header]
     IN  api' = [api EXCEPT ![q] =
                   AfterAuth(rec, AuthDecision(header, pems, now), now)]
  /\ UNCHANGED <<pems, load, provKeys, now, oauthVars, gwVars, toolVars>>

\* A request on a route that mounts no verifier enters its chain.
PublicRequest(q, route) ==
  /\ api[q].pc = "idle"
  /\ api' = [api EXCEPT ![q] =
       [IdleApi EXCEPT !.route = route, !.pc = "chain", !.idx = 1]]
  /\ UNCHANGED <<pems, load, provKeys, now, oauthVars, gwVars, toolVars>>

OptionalAuthenticate(q, header) ==
  /\ api[q].pc = "idle"
  /\ LET rec == [IdleApi EXCEPT !.route = "optional", !.header = header]
     IN  api' = [api EXCEPT ![q] =
                   AfterAuth(rec, OptionalDecision(header, pems, now), now)]
  /\ UNCHANGED <<pems, load, provKeys, now, oauthVars, gwVars, toolVars>>

\* validate(validator): the request passes on or is answered with the
\* validation error.
Validate(q, valid) ==
  /\ api[q].pc = "chain"
  /\ Chain(api[q].route)[api[q].idx] = "validate"
  /\ api' = [api EXCEPT ![q] =
       IF valid
       THEN [@ EXCEPT !.ran = @ \cup {"validate"}, !.idx = @ + 1]
       ELSE [@ EXCEPT !.ran = @ \cup {"validate"}, !.pc = "done",
                      !.status = 400, !.error = "InvalidInput"]]
  /\ UNCHANGED <<pems, load, provKeys, now, oauthVars, gwVars, toolVars>>

(***************************************************************************)
(* The controllers of the protected routes (auth.controller.ts,            *)
(* user.controller.ts): one provider call, then the response.              *)
(***************************************************************************)
ProviderErrors ==
  {"NotAuthorizedException", "UsernameExistsException",
   "UserNotFoundException", "UserNotConfirmedException",
   "InvalidPasswordException", "CodeMismatchException",
   "ExpiredCodeException", "Other"}

SuccessStatus(route) ==
  IF route \in {"adminCreateUser", "signUp"} THEN 201 ELSE 200

\* the catch blocks of the controllers:
\* <<route, error.name, status, the error text of the response>>
ErrorTable ==
  {<<"signUp", "UsernameExistsException", 409, "Username already exists">>,
   <<"signUp", "InvalidPasswordException", 400, "Invalid password format">>,
   <<"signIn", "NotAuthorizedException", 401, "Invalid username or password">>,
   <<"signIn", "UserNotConfirmedException", 403, "User email not verified">>,
   <<"verifyEmail", "CodeMismatchException", 400, "Invalid verification code">>,
   <<"verifyEmail", "ExpiredCodeException", 400,
     "Verification code has expired">>,
   <<"forgotPassword", "UserNotFoundException", 404, "User not found">>,
   <<"resetPassword", "CodeMismatchException", 400, "Invalid reset code">>,
   <<"resetPassword", "ExpiredCodeException", 400, "Reset code has expired">>,
   <<"changePassword", "NotAuthorizedException", 401,
     "Invalid current password">>,
   <<"refreshToken", "NotAuthorizedException", 401, "Invalid refresh token">>,
   <<"adminCreateUser", "UsernameExistsException", 409,
     "Username already exists">>,
   <<"adminDeleteUser", "UserNotFoundException", 404, "User not found">>}

\* variant of the controllers whose catch blocks only forward
NoMapping(route, e) == 0

\* the status a controller's catch block maps error e to; 0: next(error)
MappedStatus(route, e) ==
  IF \E row \in ErrorTable : row[1] = route /\ row[2] = e
  THEN (CHOOSE row \in ErrorTable : row[1] = route /\ row[2] = e)[3]
  ELSE 0

\* the error text of the response for error e on route; error.name itself
\* stands for what the generic handler makes of a forwarded error
MappedError(route, e) ==
  IF \E row \in ErrorTable : row[1] = route /\ row[2] = e
  THEN (CHOOSE row \in ErrorTable : row[1] = route /\ row[2] = e)[4]
  ELSE e

\* errorHandler, the generic handler next(error) reaches: an opaque 500
ErrorHandlerStatus == 500

\* The controller runs up to its await.  CognitoService.updateProfile
\* returns without a provider call when the body names no attribute.
Controller(q, attrs) ==
  /\ api[q].pc = "chain"
  /\ Chain(api[q].route)[api[q].idx] = "controller"
  /\ api' = [api EXCEPT ![q] =
       IF api[q].route = "updateProfile" /\ ~attrs
       THEN [@ EXCEPT !.ran = @ \cup {"controller"}, !.pc = "done",
                      !.status = SuccessStatus(api[q].route), !.sent = @ + 1]
       ELSE [@ EXCEPT !.ran = @ \cup {"controller"}, !.pc = "provider",
                      !.providerCalls = @ + 1]]
  /\ UNCHANGED <<pems, load, provKeys, now, oauthVars, gwVars, toolVars>>

\* variant of the catch blocks without the return after a mapped response
CatchFallsThrough(route, e) == TRUE

\* the catch block reaches its last statement, next(error): every mapped
\* response is followed by return
CatchReachesNext(route, e) == MappedStatus(route, e) = 0

\* The provider call settles: the response after the await, or the catch
\* block.
ProviderReturn(q, e) ==
  /\ api[q].pc = "provider"
  /\ api' = [api EXCEPT ![q] =
       IF e = "none"
       THEN [@ EXCEPT !.pc = "done", !.status = SuccessStatus(api[q].route),
                      !.sent = @ + 1]
       ELSE LET mapped == MappedStatus(api[q].route, e) # 0
                forwards == CatchReachesNext(api[q].route, e)
            IN  [@ EXCEPT !.pc = "done", !.error = e,
                          !.forwarded = forwards,
                          !.sent = IF mapped THEN @ + 1 ELSE @,
                          !.nextErrors = IF forwards THEN @ + 1 ELSE @,
                          !.status = IF mapped
                                     THEN MappedStatus(api[q].route, e)
                                     ELSE ErrorHandlerStatus]]
  /\ UNCHANGED <<pems, load, provKeys, now, oauthVars, gwVars, toolVars>>

(***************************************************************************)
(* POST /auth/signup and POST /auth/signin: validate, the controller       *)
(* (auth.controller.ts) and CognitoService.signUp / signIn, one step per   *)
(* provider call.  A provider call may also fail for reasons of its own    *)
(* (network, throttling): error "Other".                                   *)
(***************************************************************************)
\* the controller's catch block answers error e on route
GwFail(rec, route, e) ==
  [rec EXCEPT !.pc = "done", !.error = MappedError(route, e),
              !.status = IF MappedStatus(route, e) # 0
                         THEN MappedStatus(route, e)
                         ELSE ErrorHandlerStatus]

\* validate(validator) answers the request itself
GwInvalid(rec) ==
  [rec EXCEPT !.pc = "done", !.status = 400, !.error = "InvalidInput"]

\* AdminCreateUser: the user a pool holds after creating one
CreatedUser == [status |-> "FORCE_CHANGE_PASSWORD", password |-> TempPassword]

\* variant of AdminSetUserPassword with Permanent: false
SetTemporaryPassword(user, p) ==
  [status |-> "FORCE_CHANGE_PASSWORD", password |-> p]

\* AdminSetUserPassword with Permanent: true
SetUserPassword(user, p) == [status |-> "CONFIRMED", password |-> p]

\* The request arrives; CognitoService.signUp sends AdminCreateUser.
SignUpCreate(g, u, p, valid, fault) ==
  /\ gw[g].pc = "idle"
  /\ LET rec == [IdleGw EXCEPT !.op = "signUp", !.username = u, !.password = p]
         sent == [rec EXCEPT !.calls = <<"AdminCreateUser">>]
     IN  IF ~valid
         THEN /\ gw' = [gw EXCEPT ![g] = GwInvalid(rec)]
              /\ UNCHANGED users
         ELSE IF fault
         THEN /\ gw' = [gw EXCEPT ![g] = GwFail(sent, "signUp", "Other")]
              /\ UNCHANGED users
         ELSE IF users[u].status # "absent"
         THEN /\ gw' = [gw EXCEPT ![g] =
                   GwFail(sent, "signUp", "UsernameExistsException")]
              /\ UNCHANGED users
         ELSE /\ users' = [users EXCEPT ![u] = CreatedUser]
              /\ gw' = [gw EXCEPT ![g] =
                   [sent EXCEPT !.pc = "setPassword", !.userId = u]]
  /\ UNCHANGED <<oauthVars, verVars, toolVars>>

\* AdminSetUserPassword answers: the pool's password policy may refuse the
\* password (policy), the call may fail (fault), or the user may be gone.
SignUpSetPassword(g, policy, fault) ==
  /\ gw[g].pc = "setPassword"
  /\ LET rec == [gw[g] EXCEPT !.calls = Append(@, "AdminSetUserPassword")]
         u == gw[g].username
     IN  IF fault
         THEN /\ gw' = [gw EXCEPT ![g] = GwFail(rec, "signUp", "Other")]
              /\ UNCHANGED users
         ELSE IF users[u].status = "absent"
         THEN /\ gw' = [gw EXCEPT ![g] =
                   GwFail(rec, "signUp", "UserNotFoundException")]
              /\ UNCHANGED users
         ELSE IF ~policy
         THEN /\ gw' = [gw EXCEPT ![g] =
                   GwFail(rec, "signUp", "InvalidPasswordException")]
              /\ UNCHANGED users
         ELSE /\ users' = [users EXCEPT ![u] =
                   SetUserPassword(users[u], gw[g].password)]
              /\ gw' = [gw EXCEPT ![g] =
                   [rec EXCEPT !.pc = "done",
                               !.status = SuccessStatus("signUp"),
                               !.userConfirmed = TRUE]]
  /\ UNCHANGED <<oauthVars, verVars, toolVars>>

\* InitiateAuth with USERNAME u and PASSWORD p against the pool: an error
\* name, "challenge" (a response without AuthenticationResult) or "result"
InitiateAuth(pool, u, p) ==
  IF pool[u].status = "absent" THEN "UserNotFoundException"
  ELSE IF pool[u].password # p THEN "NotAuthorizedException"
  ELSE IF pool[u].status # "CONFIRMED" THEN "challenge"
  ELSE "result"

\* The request arrives; CognitoService.signIn sends InitiateAuth.
SignInInitiate(g, u, p, valid, fault) ==
  /\ gw[g].pc = "idle"
  /\ LET rec == [IdleGw EXCEPT !.op = "signIn", !.username = u, !.password = p]
         sent == [rec EXCEPT !.calls = <<"InitiateAuth">>]
         r == InitiateAuth(users, u, p)
     IN  gw' = [gw EXCEPT ![g] =
           IF ~valid THEN GwInvalid(rec)
           ELSE IF fault THEN GwFail(sent, "signIn", "Other")
           ELSE IF r = "challenge"
                THEN GwFail(sent, "signIn", "Authentication failed")
           ELSE IF r # "result" THEN GwFail(sent, "signIn", r)
           ELSE [sent EXCEPT !.pc = "getUser",
                             !.auth = AuthenticationResult(u)]]
  /\ UNCHANGED <<users, oauthVars, verVars, toolVars>>

\* GetUser with the new access token answers; the response carries the
\* three tokens of the AuthenticationResult.
SignInGetUser(g, fault) ==
  /\ gw[g].pc = "getUser"
  /\ LET rec == [gw[g] EXCEPT !.calls = Append(@, "GetUser")]
     IN  gw' = [gw EXCEPT ![g] =
           IF fault THEN GwFail(rec, "signIn", "Other")
           ELSE IF users[gw[g].username].status = "absent"
                THEN GwFail(rec, "signIn", "UserNotFoundException")
           ELSE [rec EXCEPT !.pc = "done", !.status = SuccessStatus("signIn"),
                            !.userId = gw[g].username,
                            !.tokens =
                              [accessToken |-> rec.auth.AccessToken,
                               idToken |-> rec.auth.IdToken,
                               refreshToken |-> rec.auth.RefreshToken]]]
  /\ UNCHANGED <<users, oauthVars, verVars, toolVars>>

\* DELETE /users/admin/:username reaches the provider: AdminDeleteUser.
AdminDeleteUser(u) ==
  /\ users[u].status # "absent"
  /\ users' = [users EXCEPT ![u] = NoUser]
  /\ UNCHANGED <<gw, oauthVars, verVars, toolVars>>

NextGateway ==
  \/ \E g \in GwIds, u \in Usernames, p \in Passwords,
        valid \in BOOLEAN, fault \in BOOLEAN :
       SignUpCreate(g, u, p, valid, fault)
  \/ \E g \in GwIds, policy \in BOOLEAN, fault \in BOOLEAN :
       SignUpSetPassword(g, policy, fault)
  \/ \E g \in GwIds, u \in Usernames, p \in Passwords \cup {TempPassword},
        valid \in BOOLEAN, fault \in BOOLEAN :
       SignInInitiate(g, u, p, valid, fault)
  \/ \E g \in GwIds, fault \in BOOLEAN : SignInGetUser(g, fault)
  \/ \E u \in Usernames : AdminDeleteUser(u)

SpecGateway == Init /\ [][NextGateway]_vars

(***************************************************************************)
(* validate(signUpValidator): a signup request arrives and every chain of *)
(* the validator runs on its body.                                         *)
(***************************************************************************)
SignUpValidation ==
  /\ ~form.ran
  /\ \E body \in SignUpBodies :
       form' = [ran |-> TRUE, body |-> body, errors |-> SignUpErrors(body)]
  /\ UNCHANGED <<bulk, oauthVars, verVars, gwVars>>

NextValidator == SignUpValidation

SpecValidator == Init /\ [][NextValidator]_vars

(***************************************************************************)
(* bulkCreateUsers and createUser: one step per answer of the server.  The *)
(* users are created one after the other; main runs one range after the    *)
(* other.                                                                  *)
(***************************************************************************)
\* variant of createUser that treats no answer as 'already exists'
NeverExists(o) == FALSE

\* status === 409 || message.includes('UsernameExistsException')
AlreadyExists(o) ==
  o.kind = "response" /\ (o.status = 409 \/ o.named)

\* if (result === true) successCount++ else if (result === false) failedCount++
Count(b, result) ==
  [b EXCEPT !.successCount = IF result = "created" THEN @ + 1 ELSE @,
            !.failedCount = IF result # "created" THEN @ + 1 ELSE @]

\* createUser returned for user i: the counts, then the next user's first
\* request, or the summary and the returned counts
AfterCreateUser(b, result) ==
  LET c == Count([b EXCEPT !.log = Append(@, [user |-> b.i, result |-> result,
                                              requests |-> b.requests])],
                 result)
  IN  IF b.i + 1 <= b.endNumber
      THEN [c EXCEPT !.i = @ + 1, !.attempt = 1, !.requests = 1]
      ELSE [c EXCEPT !.pc = "done", !.i = @ + 1,
                     !.returned = [success |-> c.successCount,
                                   failed |-> c.failedCount,
                                   skipped |-> c.skippedCount]]

\* bulkCreateUsers(domain, shortName, startNumber, endNumber) is called and
\* createUser sends the first request for the first user.
BulkCreateUsers(startNumber, endNumber) ==
  /\ bulk.pc \in {"idle", "done"}
  /\ bulk' = [IdleBulk EXCEPT !.pc = "request", !.startNumber = startNumber,
                              !.endNumber = endNumber, !.i = startNumber,
                              !.attempt = 1, !.requests = 1]
  /\ UNCHANGED <<form, oauthVars, verVars, gwVars>>

\* axios.post settles with outcome o.
SignupAnswer(o) ==
  /\ bulk.pc = "request"
  /\ LET b == [bulk EXCEPT !.last = o]
     IN  bulk' =
           IF o.kind = "created" THEN AfterCreateUser(b, "created")
           ELSE IF AlreadyExists(o) THEN AfterCreateUser(b, "exists")
           ELSE IF b.attempt = DefaultRetries THEN AfterCreateUser(b, "failed")
           ELSE [b EXCEPT !.attempt = @ + 1, !.requests = @ + 1]
  /\ UNCHANGED <<form, oauthVars, verVars, gwVars>>

NextBulk ==
  \/ \E startNumber \in 1..MaxEnd, endNumber \in 1..MaxEnd :
       startNumber <= endNumber /\ BulkCreateUsers(startNumber, endNumber)
  \/ \E o \in Outcomes : SignupAnswer(o)

\* every request is answered or fails
SpecBulk ==
  Init /\ [][NextBulk]_vars /\ WF_vars(\E o \in Outcomes : SignupAnswer(o))

NextVerifier ==
  \/ \E bad \in SUBSET Kids : LoadKeysResponse(bad)
  \/ LoadKeysError
  \/ \E k \in Kids, m \in 0..NumMats : ProviderRotate(k, m)
  \/ Tick
  \/ \E q \in ApiIds, route \in ProtectedRoutes, h \in Headers :
       Authenticate(q, route, h)
  \/ \E q \in ApiIds, h \in Headers : OptionalAuthenticate(q, h)
  \/ \E q \in ApiIds, route \in PublicRoutes : PublicRequest(q, route)
  \/ \E q \in ApiIds, valid \in BOOLEAN : Validate(q, valid)
  \/ \E q \in ApiIds, attrs \in BOOLEAN : Controller(q, attrs)
  \/ \E q \in ApiIds, e \in ProviderErrors \cup {"none"} : ProviderReturn(q, e)

SpecVerifier == Init /\ [][NextVerifier]_vars

NextOAuth ==
  \/ DiscoveryOk
  \/ DiscoveryFail
  \/ \E s \in Sessions, n \in Nonces, st \in States : Login(s, n, st)
  \/ \E r \in CbIds, s \in Sessions, p \in 0..MaxState : CallbackStart(r, s, p)
  \/ \E r \in CbIds, ok \in BOOLEAN, n \in 0..MaxNonce, t \in Toks :
       CallbackToken(r, ok, n, t)
  \/ \E r \in CbIds, ok \in BOOLEAN : CallbackUserInfo(r, ok)
  \/ \E s \in Sessions : Logout(s)
  \/ \E s \in Sessions : DestroyCallback(s)
  \/ \E s \in Sessions : Home(s)
  \/ \E s \in Sessions : Profile(s)

SpecOAuth == Init /\ [][NextOAuth]_vars

(***************************************************************************)
(* Properties of the OAuth/OIDC session flow, checked under SpecOAuth.     *)
(***************************************************************************)
CbFinishes(r) == cb[r].pc # "done" /\ cb'[r].pc = "done"

CbStarts(r) == cb[r].pc = "idle" /\ cb'[r].pc # "idle"

\* the returned state differs from the state the request read in its session
StateMismatch(rec) == rec.pState # rec.sess.state

\* the ID token's nonce differs from the nonce the request read in its session
NonceMismatch(rec) == rec.exchanged /\ rec.idNonce # rec.sess.nonce

\* C1, as stated: every callback request on a session with a stored state
\* and nonce whose returned state or ID token nonce differs from the stored
\* one fails with CallbackValidationFailed, and the session is not
\* Authenticated afterwards.
C1_AsStated ==
  [][\A r \in CbIds :
       (/\ CbFinishes(r)
        /\ ~SessionStateMissing(cb'[r].sess)
        /\ (StateMismatch(cb'[r]) \/ NonceMismatch(cb'[r])))
       => (/\ cb'[r].result = "CallbackValidationFailed"
           /\ ~IsAuthenticated(store'[cb'[r].sid]))]_vars

\* C1, amended: once discovery has completed, a callback request on a
\* session with a stored state and nonce whose returned state or ID token
\* nonce differs from the stored one fails with CallbackValidationFailed;
\* and in every case (discovery completed or not, state stored or not) a
\* request with such a mismatch does not succeed and writes nothing to the
\* session store, so it never makes a session Authenticated.
C1_MismatchFailsClosed ==
  [][\A r \in CbIds :
       (CbFinishes(r) /\ (StateMismatch(cb'[r]) \/ NonceMismatch(cb'[r])))
       => (/\ cb'[r].result # "ok"
           /\ store' = store
           /\ (ClientInitialized /\ ~SessionStateMissing(cb'[r].sess)
                 => cb'[r].result = "CallbackValidationFailed")
           /\ (~ClientInitialized => cb'[r].result = "NotInitialized"))]_vars

\* C1 witness: a token exchange returned an ID token with another nonce and
\* the request ended with CallbackValidationFailed.
C1_Witness ==
  \E r \in CbIds :
    /\ cb[r].pc = "done"
    /\ cb[r].result = "CallbackValidationFailed"
    /\ NonceMismatch(cb[r])
    /\ ~IsAuthenticated(store[cb[r].sid])

\* C2, as stated: a callback on a session that holds no nonce and no state
\* fails with SessionStateMissing, calls no token endpoint and leaves the
\* session not Authenticated.
C2_AsStated ==
  [][\A r \in CbIds :
       (CbStarts(r) /\ cb'[r].sess = NoOAuth)
       => (/\ cb'[r].result = "SessionStateMissing"
           /\ cb'[r].tokenCalls = 0
           /\ ~IsAuthenticated(store'[cb'[r].sid]))]_vars

\* C2, amended: a callback on a session that holds no nonce and no state
\* ends at once, calls no token endpoint and leaves the session unchanged
\* and not Authenticated; it fails with SessionStateMissing once discovery
\* has completed, and with the not-initialized error before that (or after
\* discovery failed).
C2_NoInitiateFails ==
  [][\A r \in CbIds :
       (CbStarts(r) /\ cb'[r].sess = NoOAuth)
       => (/\ cb'[r].pc = "done"
           /\ cb'[r].tokenCalls = 0
           /\ store' = store
           /\ ~IsAuthenticated(store'[cb'[r].sid])
           /\ (ClientInitialized => cb'[r].result = "SessionStateMissing")
           /\ (~ClientInitialized => cb'[r].result = "NotInitialized"))]_vars

\* C2 witness: a callback on a never-initiated session ended with
\* SessionStateMissing.
C2_Witness ==
  \E r \in CbIds :
    /\ cb[r].pc = "done"
    /\ cb[r].sess = NoOAuth
    /\ cb[r].result = "SessionStateMissing"
    /\ cb[r].tokenCalls = 0

\* C3: after discovery, a callback carrying the state stored by initiate()
\* reaches the token endpoint; an exchange whose ID token carries the stored
\* nonce reaches the userinfo call; and when that call succeeds the request
\* succeeds and the stored session is Authenticated, holding the userInfo
\* and the three tokens of that exchange.
C3_MatchingCallbackAuthenticates ==
  [][\A r \in CbIds :
       /\ (/\ CbStarts(r)
           /\ ClientInitialized
           /\ ~SessionStateMissing(cb'[r].sess)
           /\ cb'[r].pState = cb'[r].sess.state)
          => (cb'[r].pc = "token" /\ cb'[r].tokenCalls = 1)
       /\ (/\ cb[r].pc = "token" /\ cb'[r].pc # "token"
           /\ cb'[r].exchanged
           /\ cb'[r].idNonce = cb[r].sess.nonce)
          => cb'[r].pc = "userinfo"
       /\ (/\ cb[r].pc = "userinfo" /\ cb'[r].pc # "userinfo"
           /\ cb'[r].result # "UserInfoFailed")
          => (/\ cb'[r].result = "ok"
              /\ IsAuthenticated(store'[cb[r].sid])
              /\ store'[cb[r].sid].userInfo
                   = UserInfoOf(cb[r].tokenSet.access_token)
              /\ store'[cb[r].sid].accessToken = cb[r].tokenSet.access_token
              /\ store'[cb[r].sid].idToken = cb[r].tokenSet.id_token
              /\ store'[cb[r].sid].refreshToken = cb[r].tokenSet.refresh_token
              /\ cb[r].tokenSet # NoTokenSet
              /\ resp'[cb[r].sid].kind = "appRedirect")]_vars

\* C3 witness: a callback succeeded and its session is stored Authenticated
\* with the access token of its exchange.
C3_Witness ==
  \E r \in CbIds :
    /\ cb[r].pc = "done"
    /\ cb[r].result = "ok"
    /\ IsAuthenticated(store[cb[r].sid])
    /\ store[cb[r].sid].accessToken = cb[r].tokenSet.access_token
    /\ cb[r].pState = store[cb[r].sid].state
    /\ cb[r].idNonce = store[cb[r].sid].nonce

SessionState(oauth) ==
  IF oauth.userInfo # Absent THEN "Authenticated"
  ELSE IF oauth.nonce # 0 \/ oauth.state # 0 THEN "PendingCallback"
  ELSE "Anonymous"

\* logout() runs on session s in this step
LogoutStep(s) == destroyCb'[s] = destroyCb[s] + 1

\* C11, as stated: in every step the state of a session stays as it is or
\* moves Anonymous -> PendingCallback, PendingCallback -> Authenticated, or
\* to Anonymous by logout; no step takes an Authenticated session to
\* PendingCallback or drops its userInfo other than logout.
C11_AsStated ==
  [][\A s \in Sessions :
       LET a == SessionState(store[s])
           b == SessionState(store'[s])
       IN  \/ a = b
           \/ a = "Anonymous" /\ b = "PendingCallback"
           \/ a = "PendingCallback" /\ b = "Authenticated"
           \/ b = "Anonymous" /\ LogoutStep(s)]_vars

\* C12, as stated: a callback request that finds its session Authenticated
\* is rejected at once, without a call to the token endpoint.
C12_AsStated ==
  [][\A r \in CbIds :
       (CbStarts(r) /\ IsAuthenticated(cb'[r].sess))
       => (/\ cb'[r].pc = "done"
           /\ cb'[r].result # "ok"
           /\ cb'[r].tokenCalls = 0)]_vars

\* C13: while discovery has not completed, or after it failed, login answers
\* with the not-initialized error and no redirect to the authorization
\* endpoint, and a callback ends at once with the not-initialized error and
\* no token call; a redirect to the authorization endpoint is only ever
\* issued with the client initialized.
C13_NotInitializedFails ==
  [][/\ \A s \in Sessions :
          /\ ((\E n \in Nonces, st \in States : Login(s, n, st))
              /\ client # "ready")
             => (/\ resp'[s].kind = "loginError"
                 /\ resp'[s].err = "NotInitialized"
                 /\ ~resp'[s].flag)
          /\ (resp'[s].kind = "authRedirect" /\ resp'[s] # resp[s])
             => client = "ready"
     /\ \A r \in CbIds :
          (CbStarts(r) /\ client # "ready")
          => (/\ cb'[r].pc = "done"
              /\ cb'[r].result = "NotInitialized"
              /\ cb'[r].tokenCalls = 0
              /\ resp'[cb'[r].sid].kind = "authError"
              /\ store' = store)]_vars

\* C13 witness: after discovery failed, a login was answered with the
\* not-initialized error and a callback ended with it.
C13_Witness ==
  /\ client = "failed"
  /\ \E s \in Sessions : /\ resp[s].kind = "loginError"
                         /\ resp[s].err = "NotInitialized"
  /\ \E r \in CbIds : cb[r].pc = "done" /\ cb[r].result = "NotInitialized"

\* the stored session holds the userInfo and the three tokens of exchange t
HoldsExchange(oauth, t) ==
  /\ oauth.userInfo = UserInfoOf(TokenSet(t).access_token)
  /\ oauth.accessToken = TokenSet(t).access_token
  /\ oauth.idToken = TokenSet(t).id_token
  /\ oauth.refreshToken = TokenSet(t).refresh_token

\* C14: after every step, a stored session has userInfo exactly when it has
\* an accessToken, and then its userInfo and tokens are those of one and the
\* same exchange; and the step in which the userinfo call of a callback
\* fails leaves the store as it was (a PendingCallback session stays
\* PendingCallback, with no token).
C14_AuthenticatedAtomically ==
  [][/\ \A s \in Sessions :
          /\ (store'[s].userInfo # Absent) <=> (store'[s].accessToken # Absent)
          /\ (store'[s].userInfo # Absent)
             => \E t \in Toks : HoldsExchange(store'[s], t)
     /\ \A r \in CbIds :
          (cb[r].pc = "userinfo" /\ cb'[r].result = "UserInfoFailed")
          => (/\ store' = store
              /\ (SessionState(store[cb[r].sid]) = "PendingCallback"
                  => /\ SessionState(store'[cb[r].sid]) = "PendingCallback"
                     /\ store'[cb[r].sid].accessToken = Absent))]_vars

\* C14 witness: the token exchange of a callback succeeded, its userinfo call
\* failed, and the session is PendingCallback with no token.
C14_Witness ==
  \E r \in CbIds :
    /\ cb[r].pc = "done"
    /\ cb[r].result = "UserInfoFailed"
    /\ cb[r].exchanged
    /\ cb[r].tokenSet # NoTokenSet
    /\ SessionState(store[cb[r].sid]) = "PendingCallback"
    /\ store[cb[r].sid].accessToken = Absent

\* a view is rendered, or profile redirects, on session s in this step
Views(s, kinds) == resp'[s] # resp[s] /\ resp'[s].kind \in kinds

\* C25: home shows the userInfo, with isAuthenticated true, and profile shows
\* the userInfo, the accessToken and the idToken, of a session that is
\* Authenticated when the request is served; for an Anonymous or
\* PendingCallback session home renders with isAuthenticated false and null
\* userInfo, and profile redirects to /oauth/login and renders nothing; no
\* other response shows anything of the session, and home shows no token.
C25_CurrentUserGating ==
  [][\A s \in Sessions :
       LET authenticated == SessionState(store[s]) = "Authenticated"
       IN  /\ Views(s, {"home"})
                => /\ resp'[s].flag <=> authenticated
                   /\ resp'[s].shown.accessToken = Absent
                   /\ resp'[s].shown.idToken = Absent
                   /\ authenticated
                        => (/\ resp'[s].shown.userInfo = store[s].userInfo
                            /\ resp'[s].shown.userInfo # Absent)
                   /\ ~authenticated => resp'[s].shown = NoView
           /\ Views(s, {"profile", "loginRedirect"})
                => /\ resp'[s].kind = "profile" <=> authenticated
                   /\ authenticated
                        => (/\ resp'[s].shown.userInfo = store[s].userInfo
                            /\ resp'[s].shown.accessToken = store[s].accessToken
                            /\ resp'[s].shown.idToken = store[s].idToken
                            /\ resp'[s].shown.userInfo # Absent)
                   /\ ~authenticated => resp'[s].shown = NoView
           /\ resp'[s].kind \notin {"home", "profile"}
                => resp'[s].shown = NoView]_vars

\* C25 witness: profile redirected to /oauth/login, showing nothing, on a
\* PendingCallback session for which a callback had obtained tokens (its
\* userinfo call failed).
C25_Witness ==
  \E s \in Sessions :
    /\ resp[s].kind = "loginRedirect"
    /\ resp[s].shown = NoView
    /\ SessionState(store[s]) = "PendingCallback"
    /\ \E r \in CbIds : /\ cb[r].sid = s
                        /\ cb[r].result = "UserInfoFailed"
                        /\ cb[r].tokenSet # NoTokenSet

\* logout() has destroyed the session of callback r since r read it: r
\* found a nonce and a state, and the store holds nothing for the session
LoggedOutMeanwhile(r) ==
  /\ cb[r].pc \in {"token", "userinfo"}
  /\ ~SessionStateMissing(cb[r].sess)
  /\ store[cb[r].sid] = NoOAuth

\* C26, as stated: when logout() has run on a session while a callback of
\* that session was awaiting the provider, the step in which that callback
\* ends leaves the session not Authenticated.
C26_AsStated ==
  [][\A r \in CbIds :
       (LoggedOutMeanwhile(r) /\ cb'[r].pc = "done")
       => ~IsAuthenticated(store'[cb[r].sid])]_vars

\* login runs on session s in this step and fails
LoginFails(s) ==
  /\ \E n \in Nonces, st \in States : Login(s, n, st)
  /\ resp'[s].kind = "loginError"

\* C27, as stated: a failed login leaves the session as it was.
C27_AsStated ==
  [][\A s \in Sessions : LoginFails(s) => store'[s] = store[s]]_vars

\* C27, amended: a login fails only while the client is not initialized; it
\* sends no redirect and starts no callback, and the userInfo and tokens of
\* the session are as before, namely absent (no session is Authenticated
\* before discovery has completed); but the session is not left unchanged:
\* its nonce and state are replaced by the fresh ones, generated and stored
\* before the URL is built, so that an Anonymous session is PendingCallback
\* afterwards.
C27_FailedLoginStoresState ==
  [][\A s \in Sessions :
       LoginFails(s)
       => /\ client # "ready"
          /\ ~resp'[s].flag
          /\ cb' = cb
          /\ SessionState(store[s]) # "Authenticated"
          /\ store'[s].userInfo = store[s].userInfo
          /\ store'[s].accessToken = store[s].accessToken
          /\ store'[s].idToken = store[s].idToken
          /\ store'[s].refreshToken = store[s].refreshToken
          /\ store'[s].userInfo = Absent
          /\ store'[s].accessToken = Absent
          /\ store'[s].nonce \in Nonces
          /\ store'[s].state \in States
          /\ SessionState(store'[s]) = "PendingCallback"]_vars

\* C27 witness: discovery is still in flight, a login failed on the session,
\* and the session holds a nonce and a state.
C27_Witness ==
  /\ client = "pending"
  /\ \A r \in CbIds : cb[r].pc = "idle"
  /\ \E s \in Sessions :
       /\ resp[s].kind = "loginError"
       /\ SessionState(store[s]) = "PendingCallback"
       /\ store[s].nonce # 0

(***************************************************************************)
(* Properties of the bearer-token verifier, checked under SpecVerifier.    *)
(***************************************************************************)
\* "Bearer", one space, one word
BearerHeader(word) == HeaderOf(<<Word("Bearer"), SP, word>>)

\* the request in slot q is taken up by its verifier in this step
ApiStarts(q) == api[q].pc = "idle" /\ api'[q].pc # "idle"

\* token t, read at time t0: its kid is a key id of the key set keys, its
\* signature is valid under that key, and it is not expired
ValidUnder(t, keys, t0) ==
  /\ t.inh = "none"
  /\ t.kid # 0
  /\ keys[t.kid] # 0
  /\ t.sig = keys[t.kid]
  /\ t0 < t.exp

\* C4: a request carries an identity (req.user, req.accessToken), in
\* mandatory or optional mode, only if its header is a bearer token whose kid
\* is in the key set and whose signature and expiry were verified against
\* that key when the verifier ran; the identity is the token's subject.
C4_IdentityOnlyFromVerifiedToken ==
  \A q \in ApiIds :
    (api[q].user # 0 \/ api[q].accessToken)
    => \E t \in Jwts :
         /\ api[q].header = BearerHeader(JwtWord(t))
         /\ ValidUnder(t, pems, api[q].authAt)
         /\ api[q].verifyCalls = 1
         /\ api[q].user = t.sub
         /\ api[q].accessToken

\* C4 witness: a request on a protected route carries a verified identity,
\* and the token that gave it has expired since.
C4_Witness ==
  \E q \in ApiIds :
    /\ api[q].route \in ProtectedRoutes
    /\ api[q].user # 0
    /\ api[q].accessToken
    /\ api[q].verifyCalls = 1
    /\ \E t \in Jwts : /\ api[q].header = BearerHeader(JwtWord(t))
                       /\ api[q].authAt < t.exp
                       /\ now >= t.exp

\* C5, as stated: for a request whose header carries a token, authenticate
\* answers 401 'Invalid token' exactly when the token does not decode or its
\* kid is absent or not in the key set, and then jwt.verify is not called;
\* and 401 'Token verification failed' exactly when the kid is in the key
\* set and the signature does not validate or the token is expired.
C5_AsStated ==
  [][\A q \in ApiIds :
       \A w \in {Word("garbage")} \cup {JwtWord(t) : t \in Jwts} :
         (/\ ApiStarts(q)
          /\ api'[q].route \in ProtectedRoutes
          /\ api'[q].header = BearerHeader(w))
         => LET undecodable == w.w # "jwt" \/ ~w.tok.decodable
                unknown == \/ undecodable
                           \/ w.tok.inh # "none"
                           \/ w.tok.kid = 0
                           \/ pems[w.tok.kid] = 0
                failed == /\ ~unknown
                          /\ (w.tok.sig # pems[w.tok.kid] \/ now >= w.tok.exp)
            IN  /\ (api'[q].status = 401 /\ api'[q].error = "Invalid token")
                     <=> unknown
                /\ (/\ api'[q].status = 401
                    /\ api'[q].error = "Token verification failed")
                     <=> failed
                /\ unknown => api'[q].verifyCalls = 0]_vars

\* C6, as stated: every unexpired token signed by a key the provider
\* publishes when the request arrives is accepted, with the token's subject.
C6_AsStated ==
  [][\A q \in ApiIds : \A t \in Jwts :
       (/\ ApiStarts(q)
        /\ api'[q].route \in ProtectedRoutes
        /\ api'[q].header = BearerHeader(JwtWord(t))
        /\ ValidUnder(t, provKeys, now))
       => (/\ api'[q].status = 0
           /\ api'[q].user = t.sub)]_vars

\* the handlers of a protected route past its verifier have not run
NothingRan(rec) == rec.ran = {} /\ rec.providerCalls = 0 /\ ~rec.forwarded

\* C7, as stated: every protected route mounts authenticate first, and for
\* every request that reached it exactly one of two things happened: the
\* request was answered 401, next was not called, and neither validation,
\* the controller nor a provider call ran; or the token was verified and
\* next was called exactly once.
C7_AsStated ==
  /\ \A route \in ProtectedRoutes : Chain(route)[1] = "authenticate"
  /\ \A q \in ApiIds :
       api[q].route \in ProtectedRoutes
       => \/ /\ api[q].nextCalls = 0
             /\ api[q].status = 401
             /\ NothingRan(api[q])
          \/ /\ api[q].nextCalls = 1
             /\ api[q].user # 0
             /\ api[q].accessToken

\* C8, as stated: optionalAuthenticate never answers the request itself:
\* whatever the header, it calls next exactly once, and the request carries
\* an identity exactly when its header is a bearer token valid under the key
\* set.
C8_AsStated ==
  [][\A q \in ApiIds :
       (ApiStarts(q) /\ api'[q].route = "optional")
       => /\ api'[q].status = 0
          /\ api'[q].nextCalls = 1
          /\ (api'[q].user # 0) <=> api'[q].accessToken
          /\ (api'[q].user # 0)
               <=> \E t \in Jwts :
                     /\ api'[q].header = BearerHeader(JwtWord(t))
                     /\ ValidUnder(t, pems, now)
                     /\ api'[q].user = t.sub]_vars

\* the key set holds no key
EmptyKeySet(keys) == \A k \in Kids : keys[k] = 0

\* C15, as stated: after the first load has failed the key set is empty, and
\* every token presented to authenticate from then on is answered 401.
C15_AsStated ==
  [][/\ load' = "failed" => EmptyKeySet(pems')
     /\ \A q \in ApiIds : \A t \in KeyedJwts :
          (/\ ApiStarts(q)
           /\ load = "failed"
           /\ api'[q].route \in ProtectedRoutes
           /\ api'[q].header = BearerHeader(JwtWord(t)))
          => api'[q].status = 401]_vars

\* C16, as stated: whenever the key set changes, the new key set is the
\* complete set of the keys in the JWKS document fetched (the keys the
\* provider publishes), never a part of it.
C16_AsStated ==
  [][pems' = pems \/ pems' = provKeys]_vars

\* C17, as stated: when authenticate meets a token whose key id is not in
\* the key set and no load is in flight, a reload of the keys is started.
C17_AsStated ==
  [][\A q \in ApiIds : \A t \in KeyedJwts :
       (/\ ApiStarts(q)
        /\ api'[q].route \in ProtectedRoutes
        /\ api'[q].header = BearerHeader(JwtWord(t))
        /\ t.kid # 0
        /\ pems[t.kid] = 0
        /\ load # "pending")
       => load' = "pending"]_vars

\* C29, as stated: a request that reaches authenticate while the initial
\* key load is in flight is answered 401: it is not accepted, not left
\* without an answer and not answered 500; and once the load has completed,
\* a token valid under the loaded keys is accepted.
C29_AsStated ==
  [][\A q \in ApiIds :
       (ApiStarts(q) /\ api'[q].route \in ProtectedRoutes)
       => /\ load = "pending"
               => /\ api'[q].pc = "done"
                  /\ api'[q].status = 401
                  /\ api'[q].user = 0
                  /\ api'[q].nextCalls = 0
          /\ \A t \in Jwts :
               (/\ load = "done"
                /\ api'[q].header = BearerHeader(JwtWord(t))
                /\ ValidUnder(t, pems, now))
               => (/\ api'[q].status = 0
                   /\ api'[q].user = t.sub
                   /\ api'[q].nextCalls = 1)]_vars

\* the one status the spec gives each provider error class
ClassStatus ==
  {<<"UsernameExistsException", 409>>, <<"NotAuthorizedException", 401>>,
   <<"UserNotConfirmedException", 403>>, <<"UserNotFoundException", 404>>}

\* C18, as stated: on every endpoint, a request on which the provider raised
\* username-taken, not-authorized, user-not-confirmed or not-found is
\* answered 409, 401, 403 or 404 respectively.
C18_AsStated ==
  \A q \in ApiIds : \A c \in ClassStatus :
    (api[q].pc = "done" /\ api[q].providerCalls = 1 /\ api[q].error = c[1])
    => api[q].status = c[2]

\* the words a header of the model carries as its token
TokenWords == {Word("garbage")} \cup {JwtWord(t) : t \in Jwts}

\* C24: extractToken returns the token exactly when the Authorization header
\* is the word 'Bearer', one space and one word without a space, and then
\* it returns that word; for an absent header and for every other shape it
\* returns no token (null, or the empty string for 'Bearer' followed by one
\* space) without raising an error, and authenticate answers that request
\* 401 'No token provided' without calling next.
C24_ExtractBearer ==
  [][\A q \in ApiIds :
       (ApiStarts(q) /\ api'[q].route \in ProtectedRoutes)
       => LET h == api'[q].header
              shaped == \E w \in TokenWords : h = BearerHeader(w)
          IN  /\ shaped
                   => /\ ExtractToken(h) = h.lex[3]
                      /\ ~NoTokenProvided(ExtractToken(h))
                      /\ api'[q].error # "No token provided"
                      /\ ValidUnder(h.lex[3].tok, pems, now)
                           => (/\ api'[q].user = h.lex[3].tok.sub
                               /\ api'[q].nextCalls = 1)
              /\ ~shaped
                   => /\ NoTokenProvided(ExtractToken(h))
                      /\ api'[q].pc = "done"
                      /\ api'[q].status = 401
                      /\ api'[q].error = "No token provided"
                      /\ api'[q].nextCalls = 0
                      /\ api'[q].verifyCalls = 0
                      /\ api'[q].user = 0]_vars

\* C24 witness: a request whose header names another scheme before a valid
\* token, taken up with the keys loaded, was answered 401 'No token
\* provided'.
C24_Witness ==
  \E q \in ApiIds :
    /\ api[q].route \in ProtectedRoutes
    /\ api[q].header = HeaderOf(<<Word("Basic"), SP, JwtWord(GoodJwt)>>)
    /\ ValidUnder(GoodJwt, pems, api[q].authAt)
    /\ api[q].status = 401
    /\ api[q].error = "No token provided"

\* the catch block of route names error e
Recognized(route, e) ==
  \E row \in ErrorTable : row[1] = route /\ row[2] = e

\* C23: on every route, for every outcome of the provider call, the
\* controller does exactly one thing, once: it sends the success response,
\* or it sends the response its catch block maps the error to, or, for an
\* error its catch block does not name, it forwards the error with
\* next(error) and sends nothing; before the call settles it has done none
\* of them, and it never both sends a response and calls next(error).
C23_OneOutcomePerRequest ==
  \A q \in ApiIds :
    LET r == api[q]
    IN  /\ r.sent + r.nextErrors <= 1
        /\ r.pc # "done" => (r.sent = 0 /\ r.nextErrors = 0)
        /\ (r.pc = "done" /\ "controller" \in r.ran) =>
             /\ r.sent + r.nextErrors = 1
             /\ r.error = "none"
                  => (r.sent = 1 /\ r.status = SuccessStatus(r.route))
             /\ (r.error # "none" /\ Recognized(r.route, r.error))
                  => /\ r.sent = 1
                     /\ \E row \in ErrorTable :
                          /\ row[1] = r.route
                          /\ row[2] = r.error
                          /\ row[3] = r.status
             /\ (r.error # "none" /\ ~Recognized(r.route, r.error))
                  => (r.nextErrors = 1 /\ r.sent = 0 /\ r.forwarded)

\* C23 witness: on a route whose catch block names some errors, the provider
\* raised another one, and the controller forwarded it and sent nothing.
C23_Witness ==
  \E q \in ApiIds :
    /\ api[q].pc = "done"
    /\ api[q].providerCalls = 1
    /\ \E e \in ProviderErrors : Recognized(api[q].route, e)
    /\ api[q].error \in ProviderErrors
    /\ ~Recognized(api[q].route, api[q].error)
    /\ api[q].nextErrors = 1
    /\ api[q].sent = 0

(***************************************************************************)
(* Properties of signup and signin, checked under SpecGateway.             *)
(***************************************************************************)
\* the signin request in slot g passes validation and sends InitiateAuth in
\* this step
SignInSent(g) ==
  /\ gw[g].pc = "idle"
  /\ gw'[g].op = "signIn"
  /\ gw'[g].calls = <<"InitiateAuth">>

\* the three tokens of user u's AuthenticationResult, as signin returns them
TokenTriple(u) ==
  [accessToken |-> AuthenticationResult(u).AccessToken,
   idToken |-> AuthenticationResult(u).IdToken,
   refreshToken |-> AuthenticationResult(u).RefreshToken]

\* C19: a signin whose password is not the user's and on which the provider
\* answers is answered 401 'Invalid username or password' with no token;
\* and no response carries tokens unless it is a 200 signin response for
\* which the provider returned an AuthenticationResult, which it returns
\* only for a confirmed user's own password.
C19_SignInTokensOnlyOnResult ==
  [][\A g \in GwIds :
       /\ (/\ SignInSent(g)
           /\ users[gw'[g].username].status # "absent"
           /\ users[gw'[g].username].password # gw'[g].password)
          => (/\ gw'[g].pc = "done"
              /\ gw'[g].tokens = NoTokens
              /\ gw'[g].auth = NoAuthenticationResult
              /\ gw'[g].error # "Other"
                 => (/\ gw'[g].status = 401
                     /\ gw'[g].error = "Invalid username or password"))
       /\ (SignInSent(g) /\ gw'[g].auth # NoAuthenticationResult)
          => (/\ users[gw'[g].username].status = "CONFIRMED"
              /\ users[gw'[g].username].password = gw'[g].password)
       /\ gw'[g].tokens # NoTokens
          => (/\ gw'[g].op = "signIn"
              /\ gw'[g].status = 200
              /\ gw'[g].auth = AuthenticationResult(gw'[g].username)
              /\ gw'[g].tokens = TokenTriple(gw'[g].username))]_vars

\* C19 witness: a signin with a wrong password for a confirmed user was
\* answered 401 'Invalid username or password' with no token.
C19_Witness ==
  \E g \in GwIds :
    /\ gw[g].op = "signIn"
    /\ gw[g].pc = "done"
    /\ gw[g].status = 401
    /\ gw[g].error = "Invalid username or password"
    /\ gw[g].tokens = NoTokens
    /\ users[gw[g].username].status = "CONFIRMED"
    /\ users[gw[g].username].password # gw[g].password

\* C20: the step in which a signup is answered 201 leaves its user
\* confirmed with the submitted password as permanent password, after
\* AdminCreateUser and AdminSetUserPassword; and a signin with a confirmed
\* user's username and password, on which the provider answers and during
\* which the user is not deleted, gets the AuthenticationResult and is
\* answered 200 with its three tokens.
C20_SignUpSignInRoundTrip ==
  [][\A g \in GwIds :
       /\ (gw[g].op = "signUp" /\ gw[g].pc # "done" /\ gw'[g].status = 201)
          => (/\ users'[gw[g].username]
                   = [status |-> "CONFIRMED", password |-> gw[g].password]
              /\ gw'[g].userConfirmed
              /\ gw'[g].userId = gw[g].username
              /\ gw'[g].calls = <<"AdminCreateUser", "AdminSetUserPassword">>)
       /\ (/\ SignInSent(g)
           /\ users[gw'[g].username]
                = [status |-> "CONFIRMED", password |-> gw'[g].password]
           /\ gw'[g].error # "Other")
          => (/\ gw'[g].pc = "getUser"
              /\ gw'[g].auth = AuthenticationResult(gw'[g].username))
       /\ (/\ gw[g].pc = "getUser" /\ gw'[g].pc = "done"
           /\ users[gw[g].username].status # "absent"
           /\ gw'[g].error # "Other")
          => (/\ gw'[g].status = 200
              /\ gw'[g].tokens = TokenTriple(gw[g].username)
              /\ gw'[g].tokens.accessToken # Absent
              /\ gw'[g].tokens.idToken # Absent
              /\ gw'[g].tokens.refreshToken # Absent)]_vars

\* C20 witness: a signup was answered 201 and a signin with the same
\* username and password was answered 200 with the three tokens.
C20_Witness ==
  \E g1, g2 \in GwIds :
    /\ gw[g1].op = "signUp" /\ gw[g1].status = 201 /\ gw[g1].userConfirmed
    /\ gw[g2].op = "signIn" /\ gw[g2].status = 200
    /\ gw[g2].username = gw[g1].username
    /\ gw[g2].password = gw[g1].password
    /\ gw[g2].tokens = TokenTriple(gw[g1].username)

\* C28, as stated: the step in which a signup that had created its user is
\* answered with an error leaves no user with that username in the pool.
C28_AsStated ==
  [][\A g \in GwIds :
       (/\ gw[g].op = "signUp"
        /\ gw[g].pc = "setPassword"
        /\ gw'[g].pc = "done"
        /\ gw'[g].status # 201)
       => users'[gw[g].username].status = "absent"]_vars

(***************************************************************************)
(* Properties of the signup validator, checked under SpecValidator.        *)
(***************************************************************************)
\* the string lacks one of the four character classes of a password
LacksClass(s) ==
  \E c \in {"lower", "upper", "digit", "special"} : s.n[c] = 0

\* C21: the signup validator reports no error on a username of exactly 3 or
\* exactly 20 alphanumeric characters, reports one on a username of 2 or of
\* 21 characters, and reports one on every password that lacks a lowercase
\* letter, an uppercase letter, a digit or a special character, or that is
\* shorter than 8 characters.
C21_SignUpValidatorBoundaries ==
  form.ran =>
    LET u == form.body.username
        p == form.body.password
        alnum == u.n["special"] = 0 /\ u.n["other"] = 0
    IN  /\ (alnum /\ Length(u) \in {3, 20}) => "username" \notin form.errors
        /\ Length(u) \in {2, 21} => "username" \in form.errors
        /\ (LacksClass(p) \/ Length(p) < 8) => "password" \in form.errors

\* C21 witness: a body with a username of 20 letters, accepted, and a
\* password of 8 characters without a digit, rejected.
C21_Witness ==
  /\ form.ran
  /\ form.body.username = Lowercase(20)
  /\ form.body.password = NoDigitPassword
  /\ Length(form.body.password) = 8
  /\ form.errors = {"password"}

(***************************************************************************)
(* Properties of the bulk-provisioning utility, checked under SpecBulk.    *)
(***************************************************************************)
\* createUser returns for the current user in this step, with this result
CreateUserReturns(result) ==
  /\ bulk.pc = "request"
  /\ Len(bulk'.log) = Len(bulk.log) + 1
  /\ bulk'.log[Len(bulk'.log)]
       = [user |-> bulk.i, result |-> result, requests |-> bulk.requests]

\* createUser sends one more request for the current user in this step
CreateUserRetries ==
  /\ bulk'.pc = "request"
  /\ bulk'.i = bulk.i
  /\ bulk'.log = bulk.log
  /\ bulk'.requests = bulk.requests + 1

\* an answer arrives in this step
Answered == bulk.pc = "request" /\ bulk' # bulk

Ended(result) ==
  Cardinality({k \in 1..Len(bulk.log) : bulk.log[k].result = result})

\* C30, as stated: the counts a run returns add up to the number of users of
\* the range, and a user skipped because it already exists is counted in
\* skipped and not in failed.
C30_AsStated ==
  bulk.pc = "done" =>
    /\ bulk.returned.success + bulk.returned.failed + bulk.returned.skipped
         = bulk.endNumber - bulk.startNumber + 1
    /\ bulk.returned.skipped = Ended("exists")
    /\ bulk.returned.failed = Ended("failed")

Next ==
  NextOAuth \/ NextVerifier \/ NextGateway \/ NextValidator \/ NextBulk

Spec == Init /\ [][Next]_vars
====
